---- MODULE Spec2Model ----
(***************************************************************************)
(* Profiles table, its row-level security policies and triggers            *)
(* (supabase/migrations/20250801050644_steep_morning.sql) and the          *)
(* AuthService wrapper (client/src/lib/auth.ts) of one browser client, and *)
(* the AuthProvider context that caches its state (AuthProvider.tsx).      *)
(*                                                                         *)
(* Every await of AuthService is an interleaving point: the provider, the  *)
(* database, other clients and the other calls of the same client may act  *)
(* between two steps of one call.                                          *)
(***************************************************************************)
EXTENDS Integers, FiniteSets

(* ------------------------------ bounds -------------------------------- *)
\* user ids the provider can hand out (uuids are never reused)
MaxUsers == 2
\* largest reading of the database clock NOW()
MaxClock == 1
\* async functions of AuthProvider that may wait at an await at once
MaxTasks == 2

(* ------------------------------ values -------------------------------- *)
NoUser == 0
UserIds == 1..MaxUsers
Clock == 0..MaxClock

NULL == "NULL"
Undefined == "undefined"
NoError == "null"
Roles == {"user", "admin", "instructor"}
\* the names the callers type in, at sign-up and in a profile update
Names == {"A"}
ProviderErrors == {"invalid_credentials", "rate_limit", "email_not_confirmed"}
NoAuthenticatedUser == "No authenticated user"
DbError == "db_error"

VARIABLES
    users,      \* auth.users: set of [id, email]
    nextId,     \* next uuid the provider generates
    profiles,   \* table profiles: set of rows
    dbNow,      \* the database clock, NOW()
    session,    \* the client's stored session: the user id of its JWT, or NoUser
    su,         \* the AuthService.signUp call of the client
    si,         \* the AuthService.signIn call
    gcu,        \* a direct AuthService.getCurrentUser call
    up,         \* the AuthService.updateProfile call
    signedOut,  \* signOut has returned error = null and nobody has signed in since
    updated,    \* the ids whose profile row an UPDATE has changed so far
    ret,        \* what the last finished call or table request returned
    ctx,        \* AuthProvider's React state: user, session, loading, isAdmin
    tasks,      \* AuthProvider's async functions waiting at an await
    sub         \* the onAuthStateChange subscription and the last event it got

vars == <<users, nextId, profiles, dbNow, session, su, si, gcu, up, signedOut,
          updated, ret, ctx, tasks, sub>>

(* ------------------------ schema and constraints ----------------------- *)
UserIdSet == {u.id : u \in users}

RowsOf(rows, uid) == {r \in rows : r.id = uid}

\* PRIMARY KEY (id)
PrimaryKeyOk(rows, row) == RowsOf(rows, row.id) = {}
\* REFERENCES auth.users(id)
ForeignKeyOk(row) == row.id \in UserIdSet
\* email TEXT UNIQUE NOT NULL
UniqueEmailOk(rows, row) == \A r \in rows : r.email # row.email
\* the table made without its key and its unique constraint
ConstraintsOk_NoKeys(rows, row) == ForeignKeyOk(row)

ConstraintsOk(rows, row) ==
    PrimaryKeyOk(rows, row) /\ ForeignKeyOk(row) /\ UniqueEmailOk(rows, row)

\* the foreign key without ON DELETE CASCADE taking the rows along
OnDeleteCascade_None(rows, uid) == rows

\* ON DELETE CASCADE
OnDeleteCascade(rows, uid) == rows \ RowsOf(rows, uid)

\* column defaults of an INSERT that gives id, email, full_name and role
\* (avatar_url, which is written and read exactly as full_name is and starts
\* NULL, and created_at, which nothing writes or reads afterwards, are left out)
NewRow(id, email, fullName, role) ==
    [id |-> id, email |-> email, full_name |-> fullName,
     role |-> role, updated_at |-> dbNow]

(* ------------------------------ policies ------------------------------- *)
\* the policies' subquery without its role = 'admin'
IsAdminCaller_AnyRole(rows, uid) == \E r \in rows : r.id = uid

\* EXISTS (SELECT 1 FROM profiles WHERE id = auth.uid() AND role = 'admin')
IsAdminCaller(rows, uid) == \E r \in rows : r.id = uid /\ r.role = "admin"

\* "Users can view their own profile"
UsersCanViewOwn(uid, row) == uid = row.id
\* "Admins can view all profiles"
AdminsCanViewAll(rows, uid) == IsAdminCaller(rows, uid)
\* "Users can update their own profile": USING and WITH CHECK
UsersCanUpdateOwn(uid, row) == uid = row.id
\* "Admins can update all profiles": USING, which is also its WITH CHECK
AdminsCanUpdateAll(rows, uid) == IsAdminCaller(rows, uid)
\* "Allow profile creation during signup"
AllowProfileCreation(uid, row) == uid = row.id

\* policies are FOR ... TO authenticated and permissive: a request without a
\* session matches none, one with a session needs any one of them
SelectVisible(rows, uid, row) ==
    /\ uid # NoUser
    /\ UsersCanViewOwn(uid, row) \/ AdminsCanViewAll(rows, uid)
UpdateAllowed(rows, uid, row) ==
    /\ uid # NoUser
    /\ UsersCanUpdateOwn(uid, row) \/ AdminsCanUpdateAll(rows, uid)
InsertAllowed(uid, row) ==
    /\ uid # NoUser
    /\ AllowProfileCreation(uid, row)

(* ------------------------------ triggers ------------------------------- *)
\* handle_new_user() without the role of the sign-up metadata
handle_new_user_NoRole(id, email, metaFullName, metaRole) ==
    NewRow(id, email,
           IF metaFullName = Undefined THEN "" ELSE metaFullName,
           "user")

\* handle_new_user(): the profile row made from the new auth.users row
handle_new_user(id, email, metaFullName, metaRole) ==
    NewRow(id, email,
           IF metaFullName = Undefined THEN "" ELSE metaFullName,
           IF metaRole = Undefined THEN "user" ELSE metaRole)

\* the table without its BEFORE UPDATE trigger
update_updated_at_column_Off(new) == new

\* update_updated_at_column(): BEFORE UPDATE
update_updated_at_column(new) == [new EXCEPT !.updated_at = dbNow]

(* --------------------------- table requests ---------------------------- *)
\* an update payload: a function from some of the columns to their new values
ApplyUpdates(row, updates) ==
    [c \in DOMAIN row |-> IF c \in DOMAIN updates THEN updates[c] ELSE row[c]]

\* an UPDATE that the policies do not filter
UpdateTargets_NoPolicy(rows, uid, target) ==
    {r \in RowsOf(rows, target) : uid # NoUser}

\* the rows an UPDATE ... WHERE id = target of caller uid changes
UpdateTargets(rows, uid, target) ==
    {r \in RowsOf(rows, target) :
        SelectVisible(rows, uid, r) /\ UpdateAllowed(rows, uid, r)}

\* profiles after .update(updates).eq('id', target) by caller uid
UpdateProfiles(rows, uid, target, updates) ==
    LET hit == UpdateTargets(rows, uid, target)
    IN  (rows \ hit)
          \cup {update_updated_at_column(ApplyUpdates(r, updates)) : r \in hit}

\* the ids of the rows that UPDATE changes
UpdatedIds(rows, uid, target) == {r.id : r \in UpdateTargets(rows, uid, target)}

\* whether .insert(row) by caller uid is accepted
InsertAccepted(rows, uid, row) ==
    InsertAllowed(uid, row) /\ ConstraintsOk(rows, row)

\* the profile of a user object that has none
NoProfile == [error |-> TRUE]

\* what .select('full_name, role').eq('id', target).single() gives caller
\* uid: the row, or an error when not exactly one row is seen
SelectSingle(rows, uid, target) ==
    LET seen == {r \in RowsOf(rows, target) : SelectVisible(rows, uid, r)}
    IN  IF Cardinality(seen) = 1
        THEN LET r == CHOOSE x \in seen : TRUE
             IN  [error |-> FALSE, full_name |-> r.full_name, role |-> r.role]
        ELSE NoProfile

(* -------------------------- provider requests -------------------------- *)
\* supabase.auth.getUser(): the user of the stored session; NoUser (an error)
\* without a session or when the account is gone
GetUser == IF session \in UserIdSet THEN session ELSE NoUser

\* a sign-out that leaves the stored session in place
SessionAfterSignOut_Kept == session

\* a successful supabase.auth.signOut() drops the stored session
SessionAfterSignOut == NoUser

Idle == [pc |-> "idle"]

(* ------------------------- AuthProvider's state ------------------------ *)
\* useState(null), useState(null), useState(true), useState(false); role is
\* user.profile.role of the cached user, "none" without a user or a profile
\* (the other fields of the cached user are not read by the provider)
CtxInit ==
    [user |-> NoUser, role |-> "none", session |-> NoUser,
     loading |-> TRUE, isAdmin |-> FALSE]

\* the async functions of the provider that wait at an await: initializeAuth,
\* the onAuthStateChange callbacks and the refresh of updateProfile
TaskIds == 1..MaxTasks
HasFree(ts) == \E i \in TaskIds : ts[i].pc = "idle"
FreeTask(ts) == CHOOSE i \in TaskIds :
                   ts[i].pc = "idle" /\ \A j \in 1..(i - 1) : ts[j].pc # "idle"
\* profile?.role of what the select of caller uid for the row of target gives
FetchedProfileRole(rows, uid, target) ==
    IF SelectSingle(rows, uid, target).error THEN "none"
    ELSE SelectSingle(rows, uid, target).role

\* kind starts and waits for the first answer of its call (pc)
Spawn(ts, kind, pc) == [ts EXCEPT ![FreeTask(ts)] = [pc |-> pc, kind |-> kind]]

\* setLoading(true) of the context's signIn, signUp, signOut: with the
\* provider mounted the application calls AuthService through the context
SetLoading(c, b) == IF sub.on THEN [c EXCEPT !.loading = b] ELSE c

\* the callback up to its await: setSession(session), and without a session
\* setUser(null), setIsAdmin(false), setLoading(false)
OnAuthStateChange(c, s) ==
    IF s # NoUser
    THEN [c EXCEPT !.session = s]
    ELSE [c EXCEPT !.session = NoUser, !.user = NoUser, !.role = "none",
                   !.isAdmin = FALSE, !.loading = FALSE]

\* an event with a session needs a callback that can wait
CanEmit(s) == ~sub.on \/ s = NoUser \/ HasFree(tasks)

\* supabase-js calls the subscribed callback with the event's session; c is
\* the state the context's call has left
Emit(c, s) ==
    IF sub.on
    THEN /\ ctx' = OnAuthStateChange(c, s)
         /\ tasks' = IF s # NoUser THEN Spawn(tasks, "handler", "gu1") ELSE tasks
         /\ sub' = [sub EXCEPT !.delivered = TRUE, !.last = s]
    ELSE UNCHANGED <<ctx, tasks, sub>>

\* what a task does with the AuthUser its getCurrentUser returned:
\* initializeAuth and the callback setUser, setIsAdmin and setLoading(false);
\* updateProfile only setUser
\* the task waiting at pc goes on to wait at next, or ends (next "idle")
Resume(ts, pc, next) ==
    [i \in TaskIds |->
        IF ts[i].pc # pc THEN ts[i]
        ELSE IF next = "idle" THEN Idle ELSE [ts[i] EXCEPT !.pc = next]]

SetUser(c, kind, user, role) ==
    IF kind = "refresh"
    THEN [c EXCEPT !.user = user, !.role = role]
    ELSE [c EXCEPT !.user = user, !.role = role,
                   !.isAdmin = (role = "admin"), !.loading = FALSE]

Init ==
    /\ users = {}
    /\ nextId = 1
    /\ profiles = {}
    /\ dbNow = 0
    /\ session = NoUser
    /\ su = Idle
    /\ si = Idle
    /\ gcu = Idle
    /\ up = Idle
    /\ signedOut = FALSE
    /\ updated = {}
    /\ ret = [op |-> "none"]
    /\ ctx = CtxInit
    /\ tasks = [i \in TaskIds |-> Idle]
    /\ sub = [on |-> FALSE, delivered |-> FALSE, last |-> NoUser]

(* ------------------------------ environment ---------------------------- *)
\* time passes on the database server
Tick ==
    /\ dbNow < MaxClock
    /\ dbNow' = dbNow + 1
    /\ UNCHANGED <<users, nextId, profiles, session, su, si, gcu, up, signedOut, ret, updated, ctx, tasks, sub>>

\* DELETE FROM auth.users WHERE id = uid
DeleteUser(uid) ==
    /\ uid \in UserIdSet
    /\ users' = {u \in users : u.id # uid}
    /\ profiles' = OnDeleteCascade(profiles, uid)
    /\ updated' = updated \ {uid}
    /\ UNCHANGED <<nextId, dbNow, session, su, si, gcu, up, signedOut, ret, ctx, tasks, sub>>

\* the role in the caller's own row, as the policies' subquery finds it
CallerRole(uid) ==
    IF RowsOf(profiles, uid) = {} THEN "none"
    ELSE (CHOOSE r \in RowsOf(profiles, uid) : TRUE).role

\* the updates updateProfile is called with: full_name
UpdatePayloads == {[full_name |-> n] : n \in Names}

\* the payload updateProfile sends: {...updates, updated_at: new Date().toISOString()},
\* clientNow being the reading of the browser's clock
UpdatePayload(updates, clientNow) ==
    [c \in DOMAIN updates \cup {"updated_at"} |->
        IF c = "updated_at" THEN clientNow ELSE updates[c]]

\* the payloads another client sends for a row: those of updateProfile, and,
\* the columns having no column-level restriction, a role
RawPayloads ==
    {UpdatePayload(u, t) : u \in UpdatePayloads, t \in Clock}
      \cup {[role |-> r] : r \in Roles}

\* another signed-in client: supabase.from('profiles').update(p).eq('id', target)
RawUpdate(caller, target, payload) ==
    /\ caller \in 1..(nextId - 1)
    /\ target \in 1..(nextId - 1)
    /\ profiles' = UpdateProfiles(profiles, caller, target, payload)
    /\ updated' = updated \cup UpdatedIds(profiles, caller, target)
    /\ ret' = [op |-> "update", caller |-> caller, target |-> target,
               callerRole |-> CallerRole(caller),
               targetRows |-> Cardinality(RowsOf(profiles, target)),
               timed |-> "updated_at" \in DOMAIN payload,
               affected |-> Cardinality(UpdateTargets(profiles, caller, target))]
    /\ UNCHANGED <<users, nextId, dbNow, session, su, si, gcu, up, signedOut, ctx, tasks, sub>>

\* another signed-in client: supabase.from('profiles').select().eq('id', target)
RawSelect(caller, target) ==
    /\ caller \in 1..(nextId - 1)
    /\ target \in 1..(nextId - 1)
    /\ ret' = [op |-> "select", caller |-> caller, target |-> target,
               callerRole |-> CallerRole(caller),
               targetRows |-> Cardinality(RowsOf(profiles, target)),
               seen |-> Cardinality({r \in RowsOf(profiles, target) :
                                        SelectVisible(profiles, caller, r)})]
    /\ UNCHANGED <<users, nextId, profiles, dbNow, session, su, si, gcu, up, signedOut, updated, ctx, tasks, sub>>

(* ------------------------- AuthService.signUp -------------------------- *)
\* role = 'user' when data.role is undefined
SignUpRole(roleArg) == IF roleArg = Undefined THEN "user" ELSE roleArg

\* a rejection returned as an error of the wrapper's own
RejectedResult_Wrapped(op, err) ==
    [op |-> op, provider |-> err, requests |-> 0,
     user |-> NoUser, session |-> NoUser, error |-> DbError]

\* return { user: null, session: null, error: authError }; provider is the
\* error the provider gave, requests the table requests the call has sent
RejectedResult(op, err) ==
    [op |-> op, provider |-> err, requests |-> 0,
     user |-> NoUser, session |-> NoUser, error |-> err]

\* supabase.auth.signUp rejects the request: signUp returns the error
SignUpRejected(err) ==
    /\ su.pc = "idle"
    /\ ret' = RejectedResult("signUp", err)
    /\ ctx' = SetLoading(ctx, FALSE)
    /\ UNCHANGED <<users, nextId, profiles, dbNow, session, su, si, gcu, up, signedOut, updated, tasks, sub>>

\* supabase.auth.signUp inserts the auth.users row (a new address, a new id)
\* and on_auth_user_created fires in the same transaction; the provider opens
\* a session unless the address has to be confirmed first
SignUpCreated(fullName, roleArg, confirmed) ==
    LET role == SignUpRole(roleArg)
        row == handle_new_user(nextId, nextId, fullName, role)
    IN  /\ su.pc = "idle"
        /\ nextId <= MaxUsers
        /\ confirmed => CanEmit(nextId)
        /\ users' = users \cup {[id |-> nextId, email |-> nextId]}
        /\ nextId' = nextId + 1
        /\ PrimaryKeyOk(profiles, row) /\ UniqueEmailOk(profiles, row)
        /\ profiles' = profiles \cup {row}
        /\ session' = IF confirmed THEN nextId ELSE session
        /\ signedOut' = IF confirmed THEN FALSE ELSE signedOut
        /\ su' = [pc |-> "insert", roleArg |-> roleArg, fullName |-> fullName,
                  user |-> nextId,
                  session |-> IF confirmed THEN nextId ELSE NoUser,
                  token |-> IF confirmed THEN nextId ELSE session]
        /\ IF confirmed
           THEN Emit(SetLoading(ctx, TRUE), nextId)
           ELSE ctx' = SetLoading(ctx, TRUE) /\ UNCHANGED <<tasks, sub>>
        /\ UNCHANGED <<dbNow, si, gcu, up, ret, updated>>

\* the row of the client's own insert: full_name is fullName || null
SignUpInsertRow ==
    NewRow(su.user, su.user,
           IF su.fullName = Undefined THEN NULL ELSE su.fullName,
           SignUpRole(su.roleArg))

\* a signUp that returns the error of its insert
SignUpResult_Surfaced(profileError) ==
    [op |-> "signUp", provider |-> NoError, requests |-> 1,
     user |-> IF profileError THEN NoUser ELSE su.user,
     session |-> IF profileError THEN NoUser ELSE su.session,
     error |-> IF profileError THEN DbError ELSE NoError,
     roleArg |-> su.roleArg, profileError |-> profileError]

\* what signUp returns after its insert, whose error is only logged
SignUpResult(profileError) ==
    [op |-> "signUp", provider |-> NoError, requests |-> 1,
     user |-> su.user, session |-> su.session, error |-> NoError,
     roleArg |-> su.roleArg, profileError |-> profileError]

\* supabase.from('profiles').insert(...) and the return
SignUpInsert ==
    /\ su.pc = "insert"
    /\ IF InsertAccepted(profiles, su.token, SignUpInsertRow)
       THEN /\ profiles' = profiles \cup {SignUpInsertRow}
            /\ ret' = SignUpResult(FALSE)
       ELSE /\ profiles' = profiles
            /\ ret' = SignUpResult(TRUE)
    /\ su' = Idle
    /\ UNCHANGED <<users, nextId, dbNow, session, si, gcu, up, signedOut, updated, ctx, tasks, sub>>

(* ------------------------- AuthService.signIn -------------------------- *)
\* supabase.auth.signInWithPassword rejects the request
SignInRejected(err) ==
    /\ si.pc = "idle"
    /\ ret' = RejectedResult("signIn", err)
    /\ ctx' = SetLoading(ctx, FALSE)
    /\ UNCHANGED <<users, nextId, profiles, dbNow, session, su, si, gcu, up, signedOut, updated, tasks, sub>>

\* supabase.auth.signInWithPassword accepts the credentials of user uid
SignInAccepted(uid) ==
    /\ si.pc = "idle"
    /\ uid \in UserIdSet
    /\ CanEmit(uid)
    /\ session' = uid
    /\ signedOut' = FALSE
    /\ si' = [pc |-> "gu", userId |-> uid, session |-> uid]
    /\ Emit(SetLoading(ctx, TRUE), uid)
    /\ UNCHANGED <<users, nextId, profiles, dbNow, su, gcu, up, ret, updated>>

\* getUserWithProfile(userId): supabase.auth.getUser()
SignInGetUser ==
    /\ si.pc = "gu"
    /\ IF GetUser = NoUser
       THEN /\ ret' = [op |-> "signIn", provider |-> NoError, requests |-> 0,
                       user |-> NoUser, profile |-> NoProfile,
                       session |-> si.session, error |-> NoError]
            /\ si' = Idle
       ELSE /\ si' = [pc |-> "sel", userId |-> si.userId, session |-> si.session,
                        user |-> GetUser]
            /\ ret' = ret
    /\ UNCHANGED <<users, nextId, profiles, dbNow, session, su, gcu, up, signedOut, updated, ctx, tasks, sub>>

\* getUserWithProfile(userId): the profile select, sent with the session that
\* getUser has just read, and the return of signIn
SignInSelect ==
    /\ si.pc = "sel"
    /\ ret' = [op |-> "signIn", provider |-> NoError, requests |-> 1,
               user |-> si.user,
               profile |-> SelectSingle(profiles, si.user, si.userId),
               session |-> si.session, error |-> NoError]
    /\ si' = Idle
    /\ UNCHANGED <<users, nextId, profiles, dbNow, session, su, gcu, up, signedOut, updated, ctx, tasks, sub>>

(* ------------------------- AuthService.signOut ------------------------- *)
\* supabase.auth.signOut() succeeds
SignOut ==
    /\ session' = SessionAfterSignOut
    /\ signedOut' = TRUE
    /\ ret' = [op |-> "signOut", error |-> NoError]
    /\ Emit(SetLoading(ctx, TRUE), NoUser)
    /\ UNCHANGED <<users, nextId, profiles, dbNow, su, si, gcu, up, updated>>

\* supabase.auth.signOut() fails: the session stays
SignOutFailed(err) ==
    /\ ret' = [op |-> "signOut", error |-> err]
    /\ ctx' = SetLoading(ctx, FALSE)
    /\ UNCHANGED <<users, nextId, profiles, dbNow, session, su, si, gcu, up, signedOut, updated, tasks, sub>>

(* ---------------------- AuthService.getCurrentUser --------------------- *)
GetCurrentUserNull == [op |-> "getCurrentUser", user |-> NoUser, profile |-> NoProfile]

\* the call and its supabase.auth.getUser()
GetCurrentUserCall ==
    /\ gcu.pc = "idle"
    /\ IF GetUser = NoUser
       THEN gcu' = gcu /\ ret' = GetCurrentUserNull
       ELSE gcu' = [pc |-> "gu2", userId |-> GetUser] /\ ret' = ret
    /\ UNCHANGED <<users, nextId, profiles, dbNow, session, su, si, up, signedOut, updated, ctx, tasks, sub>>

\* getUserWithProfile(user.id): supabase.auth.getUser() once more
\* (afterSignOut notes whether it was answered after a sign-out)
GetCurrentUserGetUser ==
    /\ gcu.pc = "gu2"
    /\ IF GetUser = NoUser
       THEN /\ gcu' = Idle
            /\ ret' = GetCurrentUserNull
       ELSE /\ gcu' = [pc |-> "sel", userId |-> gcu.userId, user |-> GetUser,
                         afterSignOut |-> signedOut]
            /\ ret' = ret
    /\ UNCHANGED <<users, nextId, profiles, dbNow, session, su, si, up, signedOut, updated, ctx, tasks, sub>>

\* getUserWithProfile(user.id): the profile select and the return
GetCurrentUserSelect ==
    /\ gcu.pc = "sel"
    /\ ret' = [op |-> "getCurrentUser", user |-> gcu.user,
               profile |-> SelectSingle(profiles, gcu.user, gcu.userId)]
    /\ gcu' = Idle
    /\ UNCHANGED <<users, nextId, profiles, dbNow, session, su, si, up, signedOut, updated, ctx, tasks, sub>>

(* ---------------------- AuthService.updateProfile ---------------------- *)
\* an updateProfile without the check of the user
NoUserResult_Unchecked ==
    [op |-> "updateProfile", error |-> NoError, requests |-> 1,
     user |-> NoUser, token |-> NoUser, affected |-> 0]

\* return { error: new Error('No authenticated user') } when getCurrentUser
\* gave no user
NoUserResult ==
    [op |-> "updateProfile", error |-> NoAuthenticatedUser, requests |-> 0,
     user |-> NoUser, token |-> NoUser, affected |-> 0]

\* the call and the first getUser() of its getCurrentUser()
UpdateProfileCall(updates) ==
    /\ up.pc = "idle"
    /\ sub.on => HasFree(tasks)
    /\ IF GetUser = NoUser
       THEN up' = up /\ ret' = NoUserResult /\ tasks' = tasks
       ELSE /\ up' = [pc |-> "gu2", updates |-> updates, userId |-> GetUser]
            /\ ret' = ret
            /\ tasks' = IF sub.on THEN Spawn(tasks, "refresh", "up") ELSE tasks
    /\ UNCHANGED <<users, nextId, profiles, dbNow, session, su, si, gcu, signedOut, updated, ctx, sub>>

\* the second getUser() of its getCurrentUser()
UpdateProfileGetUser ==
    /\ up.pc = "gu2"
    /\ IF GetUser = NoUser
       THEN /\ up' = Idle
            /\ ret' = NoUserResult
            /\ tasks' = Resume(tasks, "up", "idle")
       ELSE /\ up' = [pc |-> "sel", updates |-> up.updates, userId |-> up.userId,
                        user |-> GetUser]
            /\ ret' = ret
            /\ tasks' = tasks
    /\ UNCHANGED <<users, nextId, profiles, dbNow, session, su, si, gcu, signedOut, updated, ctx, sub>>

\* the profile select of its getCurrentUser(), which returns user.user with
\* or without the profile; the update is then sent with the session the
\* client holds at that moment
UpdateProfileSelect ==
    /\ up.pc = "sel"
    /\ up' = [pc |-> "update", updates |-> up.updates, user |-> up.user,
              token |-> session]
    /\ UNCHANGED <<users, nextId, profiles, dbNow, session, su, si, gcu, signedOut, ret, updated, ctx, tasks, sub>>

\* supabase.from('profiles').update(...).eq('id', user.id) and the return;
\* clientNow is the reading of the browser's clock
UpdateProfileUpdate(clientNow) ==
    /\ up.pc = "update"
    /\ profiles' = UpdateProfiles(profiles, up.token, up.user,
                                  UpdatePayload(up.updates, clientNow))
    /\ updated' = updated \cup UpdatedIds(profiles, up.token, up.user)
    /\ ret' = [op |-> "updateProfile", error |-> NoError, requests |-> 1,
               user |-> up.user, token |-> up.token,
               affected |-> Cardinality(UpdateTargets(profiles, up.token, up.user))]
    /\ up' = Idle
    /\ tasks' = Resume(tasks, "up", "gu1")
    /\ UNCHANGED <<users, nextId, dbNow, session, su, si, gcu, signedOut, ctx, sub>>

(* ----------------------------- AuthProvider ---------------------------- *)
\* useEffect: initializeAuth() is called and waits for getCurrentSession(),
\* and the callback is subscribed
Mount ==
    /\ ~sub.on
    /\ HasFree(tasks)
    /\ sub' = [sub EXCEPT !.on = TRUE]
    /\ tasks' = Spawn(tasks, "init", "gs")
    /\ UNCHANGED <<users, nextId, profiles, dbNow, session, su, si, gcu, up,
                   signedOut, updated, ret, ctx>>

\* initializeAuth: getCurrentSession() gives the stored session;
\* setSession(session), and without a session setUser(null),
\* setIsAdmin(false) and, finally, setLoading(false)
InitGetSession(i) ==
    /\ tasks[i].pc = "gs"
    /\ IF session # NoUser
       THEN /\ ctx' = [ctx EXCEPT !.session = session]
            /\ tasks' = [tasks EXCEPT ![i].pc = "gu1"]
       ELSE /\ ctx' = [ctx EXCEPT !.session = NoUser, !.user = NoUser,
                                  !.role = "none", !.isAdmin = FALSE,
                                  !.loading = FALSE]
            /\ tasks' = [tasks EXCEPT ![i] = Idle]
    /\ UNCHANGED <<users, nextId, profiles, dbNow, session, su, si, gcu, up,
                   signedOut, updated, ret, sub>>

\* getCurrentUser() of a task: supabase.auth.getUser(); null on an error
TaskGetUser(i) ==
    /\ tasks[i].pc = "gu1"
    /\ IF GetUser = NoUser
       THEN /\ ctx' = SetUser(ctx, tasks[i].kind, NoUser, "none")
            /\ tasks' = [tasks EXCEPT ![i] = Idle]
       ELSE /\ ctx' = ctx
            /\ tasks' = [tasks EXCEPT ![i] =
                            [pc |-> "gu2", kind |-> tasks[i].kind, userId |-> GetUser]]
    /\ UNCHANGED <<users, nextId, profiles, dbNow, session, su, si, gcu, up,
                   signedOut, updated, ret, sub>>

\* getUserWithProfile(user.id) of a task: supabase.auth.getUser() once more
TaskGetUserAgain(i) ==
    /\ tasks[i].pc = "gu2"
    /\ IF GetUser = NoUser
       THEN /\ ctx' = SetUser(ctx, tasks[i].kind, NoUser, "none")
            /\ tasks' = [tasks EXCEPT ![i] = Idle]
       ELSE /\ ctx' = ctx
            /\ tasks' = [tasks EXCEPT ![i] =
                            [pc |-> "sel", kind |-> tasks[i].kind,
                             userId |-> tasks[i].userId, user |-> GetUser]]
    /\ UNCHANGED <<users, nextId, profiles, dbNow, session, su, si, gcu, up,
                   signedOut, updated, ret, sub>>

\* getUserWithProfile(user.id) of a task: the profile select is answered,
\* getCurrentUser returns user.user with or without the profile, and the task
\* sets the state
TaskSelect(i) ==
    /\ tasks[i].pc = "sel"
    /\ ctx' = SetUser(ctx, tasks[i].kind, tasks[i].user,
                      FetchedProfileRole(profiles, tasks[i].user, tasks[i].userId))
    /\ tasks' = [tasks EXCEPT ![i] = Idle]
    /\ UNCHANGED <<users, nextId, profiles, dbNow, session, su, si, gcu, up,
                   signedOut, updated, ret, sub>>

(* --------------------------- specifications --------------------------- *)
\* the provider, the database with its other clients, and every call of the
\* client's AuthService, interleaved at their awaits
Next ==
    \/ Tick
    \/ \E uid \in UserIds : DeleteUser(uid)
    \/ \E c \in UserIds, t \in UserIds, p \in RawPayloads : RawUpdate(c, t, p)
    \/ \E c \in UserIds, t \in UserIds : RawSelect(c, t)
    \/ \E err \in ProviderErrors : SignUpRejected(err)
    \/ \E f \in Names \cup {Undefined}, r \in Roles \cup {Undefined},
          c \in BOOLEAN : SignUpCreated(f, r, c)
    \/ SignUpInsert
    \/ \E err \in ProviderErrors : SignInRejected(err)
    \/ \E uid \in UserIds : SignInAccepted(uid)
    \/ SignInGetUser
    \/ SignInSelect
    \/ SignOut
    \/ \E err \in ProviderErrors : SignOutFailed(err)
    \/ GetCurrentUserCall
    \/ GetCurrentUserGetUser
    \/ GetCurrentUserSelect
    \/ \E u \in UpdatePayloads : UpdateProfileCall(u)
    \/ UpdateProfileGetUser
    \/ UpdateProfileSelect
    \/ \E now \in Clock : UpdateProfileUpdate(now)
    \/ Mount
    \/ \E i \in TaskIds : InitGetSession(i)
    \/ \E i \in TaskIds : TaskGetUser(i)
    \/ \E i \in TaskIds : TaskGetUserAgain(i)
    \/ \E i \in TaskIds : TaskSelect(i)

Spec == Init /\ [][Next]_vars

\* The claims are checked on parts of Next: the operations a claim is about
\* and the ones that can act between their steps.

\* signUp with every name and role, deletions, and the database clock
NextSignUp ==
    \/ Tick
    \/ \E uid \in UserIds : DeleteUser(uid)
    \/ \E err \in ProviderErrors : SignUpRejected(err)
    \/ \E f \in Names \cup {Undefined}, r \in Roles \cup {Undefined},
          c \in BOOLEAN : SignUpCreated(f, r, c)
    \/ SignUpInsert

SpecSignUp == Init /\ [][NextSignUp]_vars

\* the table under its policies: accounts of every role, deletions, and
\* clients that update names, give a row the role 'admin', and read
NextRls ==
    \/ \E uid \in UserIds : DeleteUser(uid)
    \/ \E r \in Roles \cup {Undefined}, c \in BOOLEAN :
          SignUpCreated(Undefined, r, c)
    \/ SignUpInsert
    \/ \E c \in UserIds, t \in UserIds,
          p \in {UpdatePayload(u, 0) : u \in UpdatePayloads}
                   \cup {[role |-> "admin"]} : RawUpdate(c, t, p)
    \/ \E c \in UserIds, t \in UserIds : RawSelect(c, t)

SpecRls == Init /\ [][NextRls]_vars

\* the table under its BEFORE UPDATE trigger: accounts of the default role,
\* each updating its own row while the database clock runs, and deletions
NextClock ==
    \/ Tick
    \/ \E uid \in UserIds : DeleteUser(uid)
    \/ \E c \in BOOLEAN : SignUpCreated(Undefined, Undefined, c)
    \/ SignUpInsert
    \/ \E c \in UserIds,
          p \in {UpdatePayload(u, t) : u \in UpdatePayloads, t \in Clock}
                   \cup {[role |-> "instructor"]} : RawUpdate(c, c, p)

SpecClock == Init /\ [][NextClock]_vars

\* the session of the client: signUp, signIn, signOut and getCurrentUser with
\* the provider's rejections, accounts of the default role and administrators,
\* and deletions
NextSession ==
    \/ \E uid \in UserIds : DeleteUser(uid)
    \/ \E err \in ProviderErrors : SignUpRejected(err)
    \/ \E r \in {Undefined, "admin"}, c \in BOOLEAN : SignUpCreated(Undefined, r, c)
    \/ SignUpInsert
    \/ \E err \in ProviderErrors : SignInRejected(err)
    \/ \E uid \in UserIds : SignInAccepted(uid)
    \/ SignInGetUser
    \/ SignInSelect
    \/ SignOut
    \/ \E err \in ProviderErrors : SignOutFailed(err)
    \/ GetCurrentUserCall
    \/ GetCurrentUserGetUser
    \/ GetCurrentUserSelect

SpecSession == Init /\ [][NextSession]_vars

\* updateProfile while the client's session changes under it: sign-ups that
\* open a session, accepted sign-ins, sign-outs, and deletions
NextUpdate ==
    \/ \E uid \in UserIds : DeleteUser(uid)
    \/ \E r \in {Undefined, "admin"} : SignUpCreated(Undefined, r, TRUE)
    \/ SignUpInsert
    \/ \E uid \in UserIds : SignInAccepted(uid)
    \/ SignInGetUser
    \/ SignInSelect
    \/ SignOut
    \/ \E u \in UpdatePayloads : UpdateProfileCall(u)
    \/ UpdateProfileGetUser
    \/ UpdateProfileSelect
    \/ \E now \in Clock : UpdateProfileUpdate(now)

SpecUpdate == Init /\ [][NextUpdate]_vars

\* AuthProvider with its initializeAuth and its callbacks: the context's
\* signUp (role 'user'), signIn and signOut, with the provider's rejections
NextHandlers ==
    \/ Mount
    \/ \E i \in TaskIds : InitGetSession(i)
    \/ \E i \in TaskIds : TaskGetUser(i)
    \/ \E i \in TaskIds : TaskGetUserAgain(i)
    \/ \E i \in TaskIds : TaskSelect(i)
    \/ \E err \in ProviderErrors : SignUpRejected(err)
    \/ \E c \in BOOLEAN : SignUpCreated(Undefined, "user", c)
    \/ SignUpInsert
    \/ \E err \in ProviderErrors : SignInRejected(err)
    \/ \E uid \in UserIds : SignInAccepted(uid)
    \/ SignInGetUser
    \/ SignInSelect
    \/ SignOut
    \/ \E err \in ProviderErrors : SignOutFailed(err)

SpecHandlers == Init /\ [][NextHandlers]_vars

\* every request that was sent is answered and every continuation runs; the
\* user need not make another call
AnswersArrive ==
    /\ WF_vars(Mount)
    /\ \A i \in TaskIds :
          /\ WF_vars(InitGetSession(i))
          /\ WF_vars(TaskGetUser(i))
          /\ WF_vars(TaskGetUserAgain(i))
          /\ WF_vars(TaskSelect(i))
    /\ WF_vars(SignUpInsert)
    /\ WF_vars(SignInGetUser)
    /\ WF_vars(SignInSelect)

SpecHandlersFair == SpecHandlers /\ AnswersArrive

\* AuthProvider with its updateProfile, for accounts of the default role that
\* any client may give the role 'admin' (no policy restricts the column)
NextRefresh ==
    \/ Mount
    \/ \E i \in TaskIds : InitGetSession(i)
    \/ \E i \in TaskIds : TaskGetUser(i)
    \/ \E i \in TaskIds : TaskGetUserAgain(i)
    \/ \E i \in TaskIds : TaskSelect(i)
    \/ SignUpCreated(Undefined, "user", TRUE)
    \/ SignUpInsert
    \/ SignOut
    \/ \E c \in UserIds : RawUpdate(c, c, [role |-> "admin"])
    \/ \E u \in UpdatePayloads : UpdateProfileCall(u)
    \/ UpdateProfileGetUser
    \/ UpdateProfileSelect
    \/ \E now \in Clock : UpdateProfileUpdate(now)

SpecRefresh == Init /\ [][NextRefresh]_vars

(* ------------------------------- claims -------------------------------- *)
\* the role a fetch of the profile row of uid returns, "none" without a row
FetchedRole(rows, uid) ==
    IF SelectSingle(rows, uid, uid).error THEN "none"
    ELSE SelectSingle(rows, uid, uid).role

\* C1: when the provider has created the account of a sign-up (the trigger
\* having run with it), a fetch of the profile row of the new id returns role
\* 'user' if no role was supplied and the supplied role otherwise, and the
\* client-side insert that follows leaves what the fetch returns as it was.
SignUpRoleStored ==
    [][ /\ (su.pc = "idle" /\ su'.pc = "insert") =>
              FetchedRole(profiles', su'.user) =
                 (IF su'.roleArg = Undefined THEN "user" ELSE su'.roleArg)
        /\ (su.pc = "insert" /\ su'.pc = "idle") =>
              FetchedRole(profiles', su.user) = FetchedRole(profiles, su.user)
      ]_vars

\* signUp has returned for a sign-up with no role and for one with a role
SignUpRoleWitness ==
    /\ ret.op = "signUp" /\ ret.error = NoError
    /\ ret.roleArg = "instructor"
    /\ FetchedRole(profiles, ret.user) = "instructor"
    /\ \E r \in profiles : r.id # ret.user /\ r.role = "user"

\* C2: every user has at most one profile row, its id the user's, and every
\* profile row belongs to an existing user.
OneProfilePerUser ==
    /\ \A u \in UserIds : Cardinality(RowsOf(profiles, u)) <= 1
    /\ \A r \in profiles : r.id \in UserIdSet

\* signUp, signed in as the new user, has tried its own insert after the
\* trigger's; an earlier user has been deleted
OneProfilePerUserWitness ==
    /\ ret.op = "signUp" /\ ret.requests = 1
    /\ ret.session = ret.user /\ ret.user \in UserIdSet
    /\ Cardinality(RowsOf(profiles, ret.user)) = 1
    /\ Cardinality(users) < nextId - 1

\* a step in which updateProfile's update request is answered
UpdateAnswered == up.pc = "update" /\ up'.pc = "idle"

\* C3 as stated: updateProfile leaves every row unchanged whose id is not the
\* authenticated id its update is sent with.
UpdateOnlyOwnRow ==
    [][ UpdateAnswered =>
          \A u \in UserIds :
             u # up.token => RowsOf(profiles', u) = RowsOf(profiles, u) ]_vars

\* C3, amended: updateProfile leaves every row unchanged whose id is not the
\* id its getCurrentUser returned, and changes no row at all when it is sent
\* with the session of another user who is not an admin.
UpdateOnlyFetchedUserRow ==
    [][ UpdateAnswered =>
          /\ \A u \in UserIds :
                u # up.user => RowsOf(profiles', u) = RowsOf(profiles, u)
          /\ (up.token # up.user /\ CallerRole(up.token) # "admin") =>
                profiles' = profiles ]_vars

\* updateProfile has been answered for a row that exists, sent with the
\* session of another user, not an admin, and no row was changed
UpdateDeniedWitness ==
    /\ ret.op = "updateProfile" /\ ret.requests = 1
    /\ ret.token \in UserIdSet /\ ret.token # ret.user
    /\ CallerRole(ret.token) = "user"
    /\ RowsOf(profiles, ret.user) # {}
    /\ ret.affected = 0

\* a step in which a getCurrentUser call returns
GetCurrentUserReturns ==
    /\ ret'.op = "getCurrentUser"
    /\ gcu'.pc = "idle"
    /\ ret' # ret \/ gcu' # gcu

\* C4 as stated: between a successful signOut and the next successful sign-in
\* or sign-up every getCurrentUser call returns no user, calls in flight at
\* the sign-out included.
NoUserAfterSignOut ==
    [][ (signedOut /\ GetCurrentUserReturns) => ret'.user = NoUser ]_vars

\* the second getUser of the call in flight was answered before the sign-out
FetchedBeforeSignOut == gcu.pc = "sel" /\ ~gcu.afterSignOut

\* C4, amended: between a successful signOut and the next successful sign-in
\* or sign-up every getCurrentUser call returns no user, unless the second
\* getUser of the call was answered before the sign-out.
NoUserAfterSignOutUnlessFetched ==
    [][ (signedOut /\ GetCurrentUserReturns /\ ~FetchedBeforeSignOut) =>
           ret'.user = NoUser ]_vars

\* a getCurrentUser call has returned no user after a sign-out, with accounts
\* to sign in to and rows to fetch
NoUserAfterSignOutWitness ==
    /\ signedOut /\ profiles # {}
    /\ ret.op = "getCurrentUser" /\ ret.user = NoUser

\* C5 as stated: an update of a row that an earlier update has changed leaves
\* a strictly greater updated_at than the earlier one left.
UpdatedAtStrictlyIncreases ==
    [][ \A r \in profiles : \A n \in profiles' :
           (n.id = r.id /\ n # r /\ r.id \in updated) =>
              n.updated_at > r.updated_at ]_vars

\* C5, amended: every update of a row leaves updated_at at the database's
\* NOW(), whatever updated_at the client sent, which is never less than the
\* value before and is greater only if the database clock has moved on.
UpdatedAtIsNow ==
    [][ \A r \in profiles : \A n \in profiles' :
           (n.id = r.id /\ n # r) =>
              n.updated_at = dbNow /\ n.updated_at >= r.updated_at ]_vars

\* a row has been updated, the last time with a payload that carried the
\* client's updated_at, and holds a later one
UpdatedAtWitness ==
    /\ ret.op = "update" /\ ret.affected = 1 /\ ret.timed
    /\ ret.target \in updated
    /\ \E r \in RowsOf(profiles, ret.target) :
          r.updated_at = dbNow /\ dbNow > 0 /\ r.full_name \in Names

\* C6: an update of another user's existing row changes it exactly when the
\* caller's own row has role 'admin'; a caller of role 'user' or 'instructor'
\* updates and reads the row of its own id only.
AdminOnlyCrossUser ==
    /\ (ret.op = "update" /\ ret.caller # ret.target /\ ret.targetRows = 1) =>
          (ret.affected = 1 <=> ret.callerRole = "admin")
    /\ (ret.op = "update" /\ ret.callerRole \in {"user", "instructor"}) =>
          (ret.affected = 1 <=> ret.target = ret.caller)
    /\ (ret.op = "select" /\ ret.callerRole \in {"user", "instructor"}) =>
          (ret.seen = 1 <=> ret.target = ret.caller)

\* an admin has updated the row of another user
AdminOnlyCrossUserWitness ==
    /\ ret.op = "update" /\ ret.caller # ret.target
    /\ ret.callerRole = "admin" /\ ret.affected = 1

\* C7: when the insert of signUp fails, signUp returns the created user and
\* the session with error = null, having sent the insert once, and the step
\* removes no user and changes no row.
InsertFailureNotSurfaced ==
    [][ (su.pc = "insert" /\ su'.pc = "idle" /\ ret'.profileError) =>
           /\ ret'.user = su.user /\ ret'.session = su.session
           /\ ret'.error = NoError /\ ret'.requests = 1
           /\ users' = users /\ profiles' = profiles ]_vars

\* signUp has returned after its insert failed, and the account exists
InsertFailureWitness ==
    /\ ret.op = "signUp" /\ ret.requests = 1
    /\ ret.profileError /\ ret.error = NoError
    /\ ret.user \in UserIdSet

\* C8: updateProfile called without a session returns 'No authenticated user'
\* at once, sends no update and leaves every row unchanged.
UpdateNeedsUser ==
    [][ (session = NoUser /\ up.pc = "idle") =>
           /\ up'.pc = "idle"
           /\ (ret' # ret /\ ret'.op = "updateProfile") =>
                 /\ ret'.error = NoAuthenticatedUser /\ ret'.requests = 0
                 /\ profiles' = profiles ]_vars

\* updateProfile has returned the error without a session, with rows present
UpdateNeedsUserWitness ==
    /\ ret.op = "updateProfile" /\ ret.error = NoAuthenticatedUser
    /\ session = NoUser /\ profiles # {}

\* C9: the deletion of a user removes the profile rows of its id and leaves
\* the rows of every other id unchanged, and no deleted id has a row later.
DeleteCascades ==
    /\ [](\A u \in 1..(nextId - 1) : u \notin UserIdSet => RowsOf(profiles, u) = {})
    /\ [][ \A u \in UserIdSet : u \notin UserIdSet' =>
              /\ RowsOf(profiles, u) # {} /\ RowsOf(profiles', u) = {}
              /\ \A v \in UserIds \ {u} : RowsOf(profiles', v) = RowsOf(profiles, v)
         ]_vars

\* a user has been deleted, the row of another user is there
DeleteCascadesWitness ==
    /\ Cardinality(users) < nextId - 1
    /\ profiles # {}

\* C10: a signIn or signUp the provider rejected returns user = null,
\* session = null and the provider's error, has sent no table request, and
\* its step leaves the table and the calls in flight as they were.
RejectionPassedThrough ==
    /\ []((ret.op \in {"signIn", "signUp"} /\ ret.provider # NoError) =>
            /\ ret.user = NoUser /\ ret.session = NoUser
            /\ ret.error = ret.provider /\ ret.requests = 0)
    /\ [][ (ret' # ret /\ ret'.op \in {"signIn", "signUp"}
                       /\ ret'.provider # NoError) =>
              profiles' = profiles /\ su' = su /\ si' = si ]_vars

\* signIn has been rejected with accounts and rows present
RejectionWitness ==
    /\ ret.op = "signIn" /\ ret.error = "invalid_credentials"
    /\ profiles # {}

\* no initializeAuth, callback or updateProfile of the mounted provider is
\* waiting at an await
Quiescent == sub.on /\ \A i \in TaskIds : tasks[i].pc = "idle"

\* C11: whenever no initialization, callback or updateProfile refresh of the
\* provider is in flight, isAdmin is true exactly if the cached user's profile
\* role is 'admin'.
IsAdminDerived ==
    Quiescent => (ctx.isAdmin <=> ctx.role = "admin")

\* C12: once initializeAuth and every callback have finished after an event,
\* the cached session is the one of the last event, a last event without a
\* session leaves no user and isAdmin false, and no user is cached next to a
\* null session.
StateMatchesLastEvent ==
    (Quiescent /\ sub.delivered) =>
        /\ ctx.session = sub.last
        /\ sub.last = NoUser => (ctx.user = NoUser /\ ~ctx.isAdmin)
        /\ ctx.session = NoUser => ctx.user = NoUser

\* C13: with the provider mounted, loading = true is always followed by
\* loading = false.
LoadingEnds == (sub.on /\ ctx.loading) ~> ~ctx.loading
====
